---- MODULE Spec2Model ----
(***************************************************************************)
(* Model of the kobzar-ccs thread/channel network: the Network facade      *)
(* (src/src/lib.rs), the WaitMap and its channel dependency graph          *)
(* (src/src/wait.rs), and the thread, channel and process registries.      *)
(***************************************************************************)
EXTENDS Integers, Sequences, FiniteSets, TLC

(* ------------------------------ bounds --------------------------------- *)
\* Threads the facade may register (keys 1..MaxThreads).
MaxThreads == 2
\* Threads the facade may register in the runs that use untimed waits only.
MaxUntimedThreads == 3
\* Channels the facade may register (keys 0..MaxChannels-1).
MaxChannels == 2
\* Processes the facade may register (keys 0..MaxProcesses-1).
MaxProcesses == 2
\* Graph nodes a stand-alone WaitMap may allocate.
MaxNodes == 3
\* Channel and thread keys offered to a stand-alone WaitMap.
MaxWmChannels == 2
MaxWmThreads == 2
\* Channel keys offered to a stand-alone WaitMap in the runs that only
\* register channels and edit their relations.
MaxGraphChannels == 3
\* Bits the model keeps of a thread key (u32 in the source) in the runs
\* that use the thread registry directly.
KeyBits == 3
\* Interface keys offered to the interface registry and to a process.
MaxInterfaces == 3
\* Distinct names of path components, and components of a path.
MaxNames == 4
MaxPathLen == 4
\* Nodes a package tree may hold besides its root.
MaxTreeNodes == 4

ThreadKeys == 1..MaxThreads
\* Interface keys (path and version); Ord for interfaces::Key is a total
\* order on them, so the BTreeSet and BTreeMap that hold them are a set and
\* a map of key values.
InterfaceKeys == 1..MaxInterfaces
KeyValues == 0..(2 ^ KeyBits - 1)
UntimedThreadKeys == 1..MaxUntimedThreads
ChannelKeys == 0..(MaxChannels - 1)
WmChannelKeys == 1..MaxWmChannels
WmThreadKeys == 1..MaxWmThreads
GraphChannelKeys == 1..MaxGraphChannels

VARIABLES
    threads,            \* ThreadSet.map : ThreadKey -> [state, chans]
    last_key,           \* ThreadSet.last_key
    processes,          \* ProcessSet.procs : ProcessKey -> set of ThreadKey
    next_process_key,   \* Network.next_process_key
    channels,           \* ChannelSet.map : ChannelKey -> participants
    next_channel_key,   \* Network.next_channel_key
    wait_deps,          \* Network.wait_deps : the WaitMap
    implements,         \* Process.implements of a process of its own
    interface_set,      \* InterfaceSet.map : InterfaceKey -> prerequisites
    path,               \* an RcPath: its names from the node to the root
    other,              \* a second RcPath
    root_node,          \* PackageTree.root_node : the tree's nodes
    ret,                \* the last call and what it returned
    panicked            \* TRUE once a call has panicked

vars == <<threads, last_key, processes, next_process_key, channels,
          next_channel_key, wait_deps, implements, interface_set, path,
          other, root_node, ret, panicked>>

\* The process and the interface registry outside the network.
Interfaces == <<implements, interface_set>>
Packages == <<path, other, root_node>>

(* ------------------------------ helpers -------------------------------- *)
Min(S) == CHOOSE x \in S : \A y \in S : x <= y

\* The elements of a BTreeSet / the keys of a BTreeMap in iteration order.
RECURSIVE SortedSeq(_)
SortedSeq(S) ==
    IF S = {} THEN <<>> ELSE <<Min(S)>> \o SortedSeq(S \ {Min(S)})

\* BTreeMap::insert: the key is added or its value replaced.
MapInsert(m, k, v) == [x \in (DOMAIN m) \cup {k} |-> IF x = k THEN v ELSE m[x]]

\* BTreeMap::remove.
MapRemove(m, k) == [x \in (DOMAIN m) \ {k} |-> m[x]]

EmptyMap == [x \in {} |-> {}]

(* --------------------------- thread states ----------------------------- *)
Sleep == <<"Sleep">>
Active == <<"Active">>
WaitWithTimeout(c) == <<"WaitWithTimeout", c>>
WaitWithoutTimeout(c) == <<"WaitWithoutTimeout", c>>

\* std::mem::discriminant of a thread state.
discriminant(st) == st[1]

\* Thread::is_waiting_channel: the thread waits, with or without timeout,
\* for a signal of the given channel.
is_waiting_channel(st, c) == Len(st) = 2 /\ st[2] = c

\* Thread::default.
ThreadDefault == [state |-> Sleep, chans |-> {}]

(* -------------------- channel dependency graph ------------------------- *)
\* A graph is the map node id -> ids of the nodes it has relations to.

\* GraphNode::relation_exists.
relation_exists(rel, from, to) == to \in rel[from]

\* The walk of path_has_loop following only the first relation of every
\* node.
RECURSIVE path_walk_first_only(_, _, _)
path_walk_first_only(rel, nodes, next_nodes) ==
    IF next_nodes = <<>> THEN FALSE
    ELSE LET cur == Head(next_nodes) IN
         IF cur \in nodes THEN TRUE
         ELSE path_walk_first_only(rel, nodes \cup {cur},
                  Tail(next_nodes) \o (IF rel[cur] = {} THEN <<>>
                                        ELSE <<Min(rel[cur])>>))

\* GraphNode::path_has_loop: the breadth-first walk over the out-edges of
\* the node; true as soon as an id is taken from the queue a second time.
RECURSIVE path_walk(_, _, _)
path_walk(rel, nodes, next_nodes) ==
    IF next_nodes = <<>> THEN FALSE
    ELSE LET cur == Head(next_nodes) IN
         IF cur \in nodes THEN TRUE
         ELSE path_walk(rel, nodes \cup {cur},
                        Tail(next_nodes) \o SortedSeq(rel[cur]))

path_has_loop(rel, self) == path_walk(rel, {}, <<self>>)

\* The number of times the loop of path_has_loop takes a node from the
\* queue before it returns.
RECURSIVE path_walk_steps(_, _, _)
path_walk_steps(rel, nodes, next_nodes) ==
    IF next_nodes = <<>> THEN 1
    ELSE LET cur == Head(next_nodes) IN
         IF cur \in nodes THEN 1
         ELSE 1 + path_walk_steps(rel, nodes \cup {cur},
                                  Tail(next_nodes) \o SortedSeq(rel[cur]))

\* add_relation without the loop check: the relation is always kept.
add_relation_unchecked(rel, self, node) ==
    IF relation_exists(rel, self, node)
    THEN [rel |-> rel, res |-> "Ok(false)"]
    ELSE [rel |-> [rel EXCEPT ![self] = @ \cup {node}], res |-> "Ok(true)"]

\* add_relation answering Err without reverting: the rejected relation
\* stays in the node.
add_relation_no_revert(rel, self, node) ==
    IF relation_exists(rel, self, node)
    THEN [rel |-> rel, res |-> "Ok(false)"]
    ELSE LET ins == [rel EXCEPT ![self] = @ \cup {node}] IN
         IF path_has_loop(ins, self)
         THEN [rel |-> ins, res |-> "Err"]
         ELSE [rel |-> ins, res |-> "Ok(true)"]

\* GraphNode::add_relation: [rel, res] with res "Ok(true)", "Ok(false)"
\* or "Err".
add_relation(rel, self, node) ==
    IF relation_exists(rel, self, node)
    THEN [rel |-> rel, res |-> "Ok(false)"]
    ELSE LET ins == [rel EXCEPT ![self] = @ \cup {node}] IN
         IF path_has_loop(ins, self)
         THEN [rel |-> [ins EXCEPT ![self] = @ \ {node}], res |-> "Err"]
         ELSE [rel |-> ins, res |-> "Ok(true)"]

\* GraphNode::remove_relation: [rel, res].
remove_relation(rel, self, node) ==
    IF ~relation_exists(rel, self, node)
    THEN [rel |-> rel, res |-> FALSE]
    ELSE [rel |-> [rel EXCEPT ![self] = @ \ {node}], res |-> TRUE]

(* ------------------------------ WaitMap -------------------------------- *)
\* A WaitMap is the record [chan, thr, chan_to_graph, next_id, relations]:
\* relations holds GraphNode.relations of every node allocated so far.

\* WaitMap::new.
WaitMapNew == [chan |-> EmptyMap, thr |-> EmptyMap, chan_to_graph |-> EmptyMap,
               next_id |-> 0, relations |-> EmptyMap]

\* Graph::new_node: the node takes next_id and has no relations.
new_node(wm) ==
    [wm EXCEPT !.next_id = @ + 1,
               !.relations = MapInsert(@, wm.next_id, {})]

\* The thread map part of add_channel: every waiter gets the channel.
RECURSIVE add_channel_thr(_, _, _)
add_channel_thr(thr, key, waiters) ==
    IF waiters = <<>> THEN thr
    ELSE LET t == Head(waiters)
             set == IF t \in DOMAIN thr THEN thr[t] ELSE {}
         IN add_channel_thr(MapInsert(thr, t, set \cup {key}), key, Tail(waiters))

\* WaitMap::add_channel: [wm, res].
add_channel(wm, key, waiters) ==
    LET present == key \in DOMAIN wm.chan
        w1 == IF present THEN wm
              ELSE LET n == new_node(wm) IN
                   [n EXCEPT !.chan = MapInsert(@, key, waiters),
                             !.chan_to_graph = MapInsert(@, key, wm.next_id)]
    IN [wm |-> [w1 EXCEPT !.thr = add_channel_thr(@, key, SortedSeq(waiters))],
        res |-> ~present]

\* WaitMap::remove_channel: res is "None", "Some(false)" or "Some(true)".
remove_channel(wm, key) ==
    IF key \notin DOMAIN wm.chan THEN [wm |-> wm, res |-> "None"]
    ELSE IF wm.chan[key] # {} THEN [wm |-> wm, res |-> "Some(false)"]
    ELSE [wm |-> [wm EXCEPT !.chan = MapRemove(@, key)], res |-> "Some(true)"]

\* WaitMap::add_waiter: [wm, res].
add_waiter(wm, key, waiter) ==
    IF key \in DOMAIN wm.chan
    THEN LET set == IF waiter \in DOMAIN wm.thr THEN wm.thr[waiter] ELSE {}
         IN [wm |-> [wm EXCEPT !.chan[key] = @ \cup {waiter},
                               !.thr = MapInsert(@, waiter, set \cup {key})],
             res |-> TRUE]
    ELSE [wm |-> [wm EXCEPT !.chan = MapInsert(@, key, {waiter})],
          res |-> FALSE]

\* WaitMap::remove_waiter: [wm, res, panic]; the unwrap of the thread's
\* entry panics when the thread map has none.
remove_waiter(wm, key, waiter) ==
    IF key \in DOMAIN wm.chan /\ waiter \in wm.chan[key]
    THEN LET w1 == [wm EXCEPT !.chan[key] = @ \ {waiter}] IN
         IF waiter \in DOMAIN wm.thr
         THEN [wm |-> [w1 EXCEPT !.thr[waiter] = @ \ {key}],
               res |-> TRUE, panic |-> FALSE]
         ELSE [wm |-> w1, res |-> FALSE, panic |-> TRUE]
    ELSE [wm |-> wm, res |-> FALSE, panic |-> FALSE]

\* The loop of remove_thread over the thread's channels, in key order; the
\* unwrap of a channel's entry panics when the channel map has none.
RECURSIVE remove_thread_loop(_, _, _)
remove_thread_loop(wm, key, chans) ==
    IF chans = <<>> THEN [wm |-> wm, res |-> TRUE, panic |-> FALSE]
    ELSE LET c == Head(chans) IN
         IF c \notin DOMAIN wm.chan
         THEN [wm |-> wm, res |-> FALSE, panic |-> TRUE]
         ELSE remove_thread_loop([wm EXCEPT !.chan[c] = @ \ {key}], key,
                                 Tail(chans))

\* WaitMap::remove_thread: [wm, res, panic].
remove_thread(wm, key) ==
    IF key \notin DOMAIN wm.thr
    THEN [wm |-> wm, res |-> FALSE, panic |-> FALSE]
    ELSE remove_thread_loop(wm, key, SortedSeq(wm.thr[key]))

\* WaitMap::add_channel_relation: [wm, res] with res "Ok(true)",
\* "Ok(false)" or "Err"; the relation goes from the node of `from` to the
\* node of `to`.
add_channel_relation(wm, to, from) ==
    IF ~(to \in DOMAIN wm.chan_to_graph /\ from \in DOMAIN wm.chan_to_graph)
    THEN [wm |-> wm, res |-> "Ok(false)"]
    ELSE LET r == add_relation(wm.relations, wm.chan_to_graph[from],
                               wm.chan_to_graph[to])
         IN [wm |-> [wm EXCEPT !.relations = r.rel],
             res |-> IF r.res = "Err" THEN "Err" ELSE "Ok(true)"]

\* WaitMap::remove_channel_relation: res is "None", "Some(true)" or
\* "Some(false)".
remove_channel_relation(wm, to, from) ==
    IF ~(to \in DOMAIN wm.chan_to_graph /\ from \in DOMAIN wm.chan_to_graph)
    THEN [wm |-> wm, res |-> "None"]
    ELSE LET r == remove_relation(wm.relations, wm.chan_to_graph[from],
                                  wm.chan_to_graph[to])
         IN [wm |-> [wm EXCEPT !.relations = r.rel],
             res |-> IF r.res THEN "Some(true)" ELSE "Some(false)"]

(* --------------------------- Network facade ---------------------------- *)
\* The facade's operations as functions of the network's fields
\* nw = [threads, channels, wait_deps]; each yields [nw, res, panic].

\* Network::remove_from_wait_dep.
remove_from_wait_dep(nw, thread) ==
    LET r == remove_thread(nw.wait_deps, thread)
    IN [nw |-> [nw EXCEPT !.wait_deps = r.wm], panic |-> r.panic]

\* change_thread_state_remove_deps comparing the old state with the wrong
\* discriminant: a thread leaving a timed wait is removed from the wait map.
change_thread_state_wrong_discriminant(nw, thread, state) ==
    IF thread \notin DOMAIN nw.threads
    THEN [nw |-> nw, res |-> "None", panic |-> FALSE]
    ELSE LET old_state == nw.threads[thread].state
             n1 == [nw EXCEPT !.threads[thread].state = state]
         IN IF discriminant(old_state) = discriminant(WaitWithTimeout(0))
            THEN LET r == remove_from_wait_dep(n1, thread)
                 IN [nw |-> r.nw, res |-> "Some", panic |-> r.panic]
            ELSE [nw |-> n1, res |-> "Some", panic |-> FALSE]

\* Network::change_thread_state_remove_deps.
change_thread_state_remove_deps(nw, thread, state) ==
    IF thread \notin DOMAIN nw.threads
    THEN [nw |-> nw, res |-> "None", panic |-> FALSE]
    ELSE LET old_state == nw.threads[thread].state
             n1 == [nw EXCEPT !.threads[thread].state = state]
         IN IF discriminant(old_state) = discriminant(WaitWithoutTimeout(0))
            THEN LET r == remove_from_wait_dep(n1, thread)
                 IN [nw |-> r.nw, res |-> "Some", panic |-> r.panic]
            ELSE [nw |-> n1, res |-> "Some", panic |-> FALSE]

\* sleep_thread asking for the state Active.
sleep_thread_as_active(nw, thread) ==
    change_thread_state_remove_deps(nw, thread, Active)

\* Network::sleep_thread.
sleep_thread(nw, thread) == change_thread_state_remove_deps(nw, thread, Sleep)

\* Network::active_thread.
active_thread(nw, thread) == change_thread_state_remove_deps(nw, thread, Active)

\* The first loop of wait_thread over the channels of the thread, in key
\* order: a relation from ch to the signal source is requested when the
\* participant count of ch equals the number of channels in the wait map;
\* the loop breaks at the first Err.  Yields [wm, err, panic].
RECURSIVE wait_register(_, _, _, _)
wait_register(wd, chs, chans, signal_source) ==
    IF chans = <<>> THEN [wm |-> wd, err |-> FALSE, panic |-> FALSE]
    ELSE LET ch == Head(chans)
             participant_count == Cardinality(chs[ch])
         IN IF participant_count = Cardinality(DOMAIN wd.chan)
            THEN LET result == add_channel_relation(wd, signal_source, ch)
                 IN IF result.res = "Err"
                    THEN [wm |-> result.wm, err |-> TRUE, panic |-> FALSE]
                    ELSE IF result.res = "Ok(false)"
                    THEN [wm |-> result.wm, err |-> FALSE, panic |-> TRUE]
                    ELSE wait_register(result.wm, chs, Tail(chans), signal_source)
            ELSE wait_register(wd, chs, Tail(chans), signal_source)

\* The second loop of wait_thread: the relation from every channel of the
\* thread to the signal source is removed.
RECURSIVE wait_revert(_, _, _)
wait_revert(wd, chans, signal_source) ==
    IF chans = <<>> THEN wd
    ELSE wait_revert(remove_channel_relation(wd, signal_source, Head(chans)).wm,
                     Tail(chans), signal_source)

\* Network::wait_thread: res is "Ok(Some)", "Ok(None)" or "Err".
wait_thread(nw, thread_key, signal_source, timer) ==
    IF timer
    THEN LET r == change_thread_state_remove_deps(nw, thread_key,
                      WaitWithTimeout(signal_source))
         IN [nw |-> r.nw, res |-> IF r.res = "Some" THEN "Ok(Some)" ELSE "Ok(None)",
             panic |-> r.panic]
    ELSE IF signal_source \notin DOMAIN nw.channels
    THEN [nw |-> nw, res |-> "Ok(None)", panic |-> FALSE]
    ELSE IF thread_key \notin DOMAIN nw.threads
    THEN [nw |-> nw, res |-> "Ok(None)", panic |-> FALSE]
    ELSE LET chans == SortedSeq(nw.threads[thread_key].chans)
             wd == add_waiter(nw.wait_deps, signal_source, thread_key).wm
             reg == wait_register(wd, nw.channels, chans, signal_source)
         IN IF reg.panic
            THEN [nw |-> [nw EXCEPT !.wait_deps = reg.wm], res |-> "panic",
                  panic |-> TRUE]
            ELSE IF reg.err
            THEN [nw |-> [nw EXCEPT !.wait_deps =
                                 wait_revert(reg.wm, chans, signal_source)],
                  res |-> "Err", panic |-> FALSE]
            ELSE [nw |-> [nw EXCEPT !.wait_deps = reg.wm], res |-> "Ok(Some)",
                  panic |-> FALSE]

\* The loop of channel_signal without its test: every participant is woken.
RECURSIVE signal_wake_all(_, _, _, _)
signal_wake_all(nw, parts, channel, list) ==
    IF parts = <<>> THEN [nw |-> nw, list |-> list, panic |-> FALSE]
    ELSE LET participant_key == Head(parts)
             r == active_thread(nw, participant_key)
         IN IF r.panic THEN [nw |-> r.nw, list |-> <<participant_key>> \o list,
                             panic |-> TRUE]
            ELSE signal_wake_all(r.nw, Tail(parts), channel,
                                 <<participant_key>> \o list)

\* The loop of channel_signal over the participants, in key order: every
\* participant waiting for the channel is pushed to the front of the list
\* and made active.  Yields [nw, list, panic].
RECURSIVE signal_wake(_, _, _, _)
signal_wake(nw, parts, channel, list) ==
    IF parts = <<>> THEN [nw |-> nw, list |-> list, panic |-> FALSE]
    ELSE LET participant_key == Head(parts) IN
         IF is_waiting_channel(nw.threads[participant_key].state, channel)
         THEN LET r == active_thread(nw, participant_key) IN
              IF r.panic THEN [nw |-> r.nw, list |-> <<participant_key>> \o list,
                               panic |-> TRUE]
              ELSE signal_wake(r.nw, Tail(parts), channel,
                               <<participant_key>> \o list)
         ELSE signal_wake(nw, Tail(parts), channel, list)

\* channel_signal without the test that the sender participates in the
\* channel.
channel_signal_any_sender(nw, sender, channel, timer) ==
    IF channel \notin DOMAIN nw.channels
    THEN [nw |-> nw, res |-> "Err", list |-> <<>>, panic |-> FALSE]
    ELSE LET wk == signal_wake(nw, SortedSeq(nw.channels[channel]), channel, <<>>)
             w == wait_thread(wk.nw, sender, channel, timer)
         IN IF wk.panic \/ w.panic \/ w.res = "Err"
            THEN [nw |-> w.nw, res |-> "panic", list |-> wk.list, panic |-> TRUE]
            ELSE [nw |-> w.nw, res |-> "Ok", list |-> wk.list, panic |-> FALSE]

\* Network::channel_signal: [nw, res, list, panic]; res is "Ok" or "Err",
\* and the unwrap of the sender's wait panics when that wait is rejected.
channel_signal(nw, sender, channel, timer) ==
    IF channel \notin DOMAIN nw.channels
    THEN [nw |-> nw, res |-> "Err", list |-> <<>>, panic |-> FALSE]
    ELSE IF sender \notin nw.channels[channel]
    THEN [nw |-> nw, res |-> "Err", list |-> <<>>, panic |-> FALSE]
    ELSE LET wk == signal_wake(nw, SortedSeq(nw.channels[channel]), channel, <<>>)
         IN IF wk.panic
            THEN [nw |-> wk.nw, res |-> "panic", list |-> wk.list, panic |-> TRUE]
            ELSE LET w == wait_thread(wk.nw, sender, channel, timer) IN
                 IF w.panic \/ w.res = "Err"
                 THEN [nw |-> w.nw, res |-> "panic", list |-> wk.list,
                       panic |-> TRUE]
                 ELSE [nw |-> w.nw, res |-> "Ok", list |-> wk.list,
                       panic |-> FALSE]

(* ------------------------------ actions -------------------------------- *)
Nw == [threads |-> threads, channels |-> channels, wait_deps |-> wait_deps]

\* The network's fields after a call that yielded r.
Apply(r) ==
    /\ threads' = r.nw.threads
    /\ channels' = r.nw.channels
    /\ wait_deps' = r.nw.wait_deps
    /\ panicked' = r.panic

Init ==
    /\ threads = [x \in {} |-> ThreadDefault]
    /\ last_key = 0
    /\ processes = EmptyMap
    /\ next_process_key = 0
    /\ channels = EmptyMap
    /\ next_channel_key = 0
    /\ wait_deps = WaitMapNew
    /\ implements = {}
    /\ interface_set = EmptyMap
    /\ path = <<>>
    /\ other = <<>>
    /\ root_node = {<<>>}
    /\ ret = [op |-> "new", res |-> "Ok"]
    /\ panicked = FALSE

\* Network::new_process with Process::new.
NewProcess ==
    /\ ~panicked
    /\ next_process_key < MaxProcesses
    /\ processes' = MapInsert(processes, next_process_key, {})
    /\ next_process_key' = next_process_key + 1
    /\ ret' = [op |-> "new_process", res |-> next_process_key]
    /\ UNCHANGED <<threads, last_key, channels, next_channel_key, wait_deps,
                   panicked>>
    /\ UNCHANGED <<Interfaces, Packages>>

\* new_thread without attach_thread: the thread is registered and no
\* process gets its key.
NewThread_unattached(T) ==
    /\ ~panicked
    /\ \E process \in 0..MaxProcesses :
         IF process \notin DOMAIN processes
         THEN /\ ret' = [op |-> "new_thread", process |-> process,
                         res |-> "None"]
              /\ UNCHANGED <<threads, last_key, processes>>
         ELSE /\ last_key + 1 \in T
              /\ last_key' = last_key + 1
              /\ threads' = MapInsert(threads, last_key + 1, ThreadDefault)
              /\ processes' = processes
              /\ ret' = [op |-> "new_thread", process |-> process,
                         res |-> last_key + 1]
    /\ UNCHANGED <<next_process_key, channels, next_channel_key, wait_deps,
                   panicked>>
    /\ UNCHANGED <<Interfaces, Packages>>

\* new_thread attaching the thread to every process of the registry.
NewThread_attach_all(T) ==
    /\ ~panicked
    /\ \E process \in 0..MaxProcesses :
         IF process \notin DOMAIN processes
         THEN /\ ret' = [op |-> "new_thread", process |-> process,
                         res |-> "None"]
              /\ UNCHANGED <<threads, last_key, processes>>
         ELSE /\ last_key + 1 \in T
              /\ last_key' = last_key + 1
              /\ threads' = MapInsert(threads, last_key + 1, ThreadDefault)
              /\ processes' = [q \in DOMAIN processes |->
                                  processes[q] \cup {last_key + 1}]
              /\ ret' = [op |-> "new_thread", process |-> process,
                         res |-> last_key + 1]
    /\ UNCHANGED <<next_process_key, channels, next_channel_key, wait_deps,
                   panicked>>
    /\ UNCHANGED <<Interfaces, Packages>>

\* Network::new_thread with Thread::new; ThreadSet::add takes last_key + 1.
\* T is the set of thread keys the run may use.
NewThread(T) ==
    /\ ~panicked
    /\ \E process \in 0..MaxProcesses :
         IF process \notin DOMAIN processes
         THEN /\ ret' = [op |-> "new_thread", process |-> process,
                         res |-> "None"]
              /\ UNCHANGED <<threads, last_key, processes>>
         ELSE /\ last_key + 1 \in T
              /\ last_key' = last_key + 1
              /\ threads' = MapInsert(threads, last_key + 1, ThreadDefault)
              /\ processes' = [processes EXCEPT ![process] = @ \cup {last_key + 1}]
              /\ ret' = [op |-> "new_thread", process |-> process,
                         res |-> last_key + 1]
    /\ UNCHANGED <<next_process_key, channels, next_channel_key, wait_deps,
                   panicked>>
    /\ UNCHANGED <<Interfaces, Packages>>

\* new_channel without the add_channel of the wait map: the channel gets
\* no entry and no graph node there.
NewChannel_no_wait_map(T) ==
    /\ ~panicked
    /\ \E participants \in (SUBSET T) \ {{}} :
         IF \E p \in participants : p \notin DOMAIN threads
         THEN /\ ret' = [op |-> "new_channel", participants |-> participants,
                         res |-> "None"]
              /\ UNCHANGED <<threads, channels, next_channel_key, wait_deps>>
         ELSE /\ next_channel_key < MaxChannels
              /\ channels' = MapInsert(channels, next_channel_key, participants)
              /\ wait_deps' = wait_deps
              /\ next_channel_key' = next_channel_key + 1
              /\ threads' = [t \in DOMAIN threads |->
                    IF t \in participants
                    THEN [threads[t] EXCEPT !.chans = @ \cup {next_channel_key}]
                    ELSE threads[t]]
              /\ ret' = [op |-> "new_channel", participants |-> participants,
                         res |-> next_channel_key]
    /\ UNCHANGED <<last_key, processes, next_process_key, panicked>>
    /\ UNCHANGED <<Interfaces, Packages>>

\* new_channel without the check of the participants: the channel is
\* registered whether or not its participants are.
NewChannel_unchecked(T) ==
    /\ ~panicked
    /\ \E participants \in (SUBSET T) \ {{}} :
         /\ next_channel_key < MaxChannels
         /\ channels' = MapInsert(channels, next_channel_key, participants)
         /\ wait_deps' = add_channel(wait_deps, next_channel_key, {}).wm
         /\ next_channel_key' = next_channel_key + 1
         /\ threads' = [t \in DOMAIN threads |->
               IF t \in participants
               THEN [threads[t] EXCEPT !.chans = @ \cup {next_channel_key}]
               ELSE threads[t]]
         /\ ret' = [op |-> "new_channel", participants |-> participants,
                    res |-> next_channel_key]
    /\ UNCHANGED <<last_key, processes, next_process_key, panicked>>
    /\ UNCHANGED <<Interfaces, Packages>>

\* new_channel registering the channel to its first participant only.
NewChannel_first_only(T) ==
    /\ ~panicked
    /\ \E participants \in (SUBSET T) \ {{}} :
         IF \E p \in participants : p \notin DOMAIN threads
         THEN /\ ret' = [op |-> "new_channel", participants |-> participants,
                         res |-> "None"]
              /\ UNCHANGED <<threads, channels, next_channel_key, wait_deps>>
         ELSE /\ next_channel_key < MaxChannels
              /\ channels' = MapInsert(channels, next_channel_key, participants)
              /\ wait_deps' = add_channel(wait_deps, next_channel_key, {}).wm
              /\ next_channel_key' = next_channel_key + 1
              /\ threads' = [t \in DOMAIN threads |->
                    IF t = Min(participants)
                    THEN [threads[t] EXCEPT !.chans = @ \cup {next_channel_key}]
                    ELSE threads[t]]
              /\ ret' = [op |-> "new_channel", participants |-> participants,
                         res |-> next_channel_key]
    /\ UNCHANGED <<last_key, processes, next_process_key, panicked>>
    /\ UNCHANGED <<Interfaces, Packages>>

\* Network::new_channel for a channel with the given participants.
NewChannel(T) ==
    /\ ~panicked
    /\ \E participants \in (SUBSET T) \ {{}} :
         IF \E p \in participants : p \notin DOMAIN threads
         THEN /\ ret' = [op |-> "new_channel", participants |-> participants,
                         res |-> "None"]
              /\ UNCHANGED <<threads, channels, next_channel_key, wait_deps>>
         ELSE /\ next_channel_key < MaxChannels
              /\ channels' = MapInsert(channels, next_channel_key, participants)
              /\ wait_deps' = add_channel(wait_deps, next_channel_key, {}).wm
              /\ next_channel_key' = next_channel_key + 1
              /\ threads' = [t \in DOMAIN threads |->
                    IF t \in participants
                    THEN [threads[t] EXCEPT !.chans = @ \cup {next_channel_key}]
                    ELSE threads[t]]
              /\ ret' = [op |-> "new_channel", participants |-> participants,
                         res |-> next_channel_key]
    /\ UNCHANGED <<last_key, processes, next_process_key, panicked>>
    /\ UNCHANGED <<Interfaces, Packages>>

SleepThread(T) ==
    /\ ~panicked
    /\ \E thread \in T :
         LET r == sleep_thread(Nw, thread) IN
         /\ Apply(r)
         /\ ret' = [op |-> "sleep_thread", thread |-> thread, res |-> r.res]
    /\ UNCHANGED <<last_key, processes, next_process_key, next_channel_key>>
    /\ UNCHANGED <<Interfaces, Packages>>

ActiveThread(T) ==
    /\ ~panicked
    /\ \E thread \in T :
         LET r == active_thread(Nw, thread) IN
         /\ Apply(r)
         /\ ret' = [op |-> "active_thread", thread |-> thread, res |-> r.res]
    /\ UNCHANGED <<last_key, processes, next_process_key, next_channel_key>>
    /\ UNCHANGED <<Interfaces, Packages>>

WaitThread(T, timers) ==
    /\ ~panicked
    /\ \E thread \in T, chan \in ChannelKeys, timer \in timers :
         LET r == wait_thread(Nw, thread, chan, timer) IN
         /\ Apply(r)
         /\ ret' = [op |-> "wait_thread", thread |-> thread, chan |-> chan,
                    timer |-> timer, res |-> r.res]
    /\ UNCHANGED <<last_key, processes, next_process_key, next_channel_key>>
    /\ UNCHANGED <<Interfaces, Packages>>

ChannelSignal(T) ==
    /\ ~panicked
    /\ \E sender \in T, chan \in ChannelKeys, timer \in BOOLEAN :
         LET r == channel_signal(Nw, sender, chan, timer) IN
         /\ Apply(r)
         /\ ret' = [op |-> "channel_signal", thread |-> sender, chan |-> chan,
                    timer |-> timer, res |-> r.res, list |-> r.list]
    /\ UNCHANGED <<last_key, processes, next_process_key, next_channel_key>>
    /\ UNCHANGED <<Interfaces, Packages>>

\* Every call of the facade, on up to MaxThreads threads.
Next ==
    \/ NewProcess
    \/ NewThread(ThreadKeys)
    \/ NewChannel(ThreadKeys)
    \/ SleepThread(ThreadKeys)
    \/ ActiveThread(ThreadKeys)
    \/ WaitThread(ThreadKeys, BOOLEAN)
    \/ ChannelSignal(ThreadKeys)

Spec == Init /\ [][Next]_vars

\* The runs of the facade in which the callers build the network and then
\* only call wait_thread with timer = false, on up to MaxUntimedThreads
\* threads.  Every such run is a run of the facade.
NextUntimed ==
    \/ NewProcess
    \/ NewThread(UntimedThreadKeys)
    \/ NewChannel(UntimedThreadKeys)
    \/ WaitThread(UntimedThreadKeys, {FALSE})

SpecUntimed == Init /\ [][NextUntimed]_vars

(* ----------------------- a WaitMap used directly ------------------------ *)
\* The calls of the public WaitMap API on a map of its own (as in the
\* tests of wait.rs); the rest of the network stays as constructed.
\* C and T are the channel and thread keys the callers use.
Facade == <<threads, last_key, processes, next_process_key, channels,
            next_channel_key>>

WmAddChannel(C, T) ==
    /\ ~panicked
    /\ \E key \in C, waiters \in SUBSET T :
         LET r == add_channel(wait_deps, key, waiters) IN
         /\ r.res => wait_deps.next_id < MaxNodes
         /\ wait_deps' = r.wm
         /\ ret' = [op |-> "add_channel", chan |-> key, res |-> r.res]
    /\ UNCHANGED <<Facade, panicked>>
    /\ UNCHANGED <<Interfaces, Packages>>

WmRemoveChannel(C) ==
    /\ ~panicked
    /\ \E key \in C :
         LET r == remove_channel(wait_deps, key) IN
         /\ wait_deps' = r.wm
         /\ ret' = [op |-> "remove_channel", chan |-> key, res |-> r.res]
    /\ UNCHANGED <<Facade, panicked>>
    /\ UNCHANGED <<Interfaces, Packages>>

WmAddWaiter(C, T) ==
    /\ ~panicked
    /\ \E key \in C, waiter \in T :
         LET r == add_waiter(wait_deps, key, waiter) IN
         /\ wait_deps' = r.wm
         /\ ret' = [op |-> "add_waiter", chan |-> key, thread |-> waiter,
                    res |-> r.res]
    /\ UNCHANGED <<Facade, panicked>>
    /\ UNCHANGED <<Interfaces, Packages>>

WmRemoveWaiter(C, T) ==
    /\ ~panicked
    /\ \E key \in C, waiter \in T :
         LET r == remove_waiter(wait_deps, key, waiter) IN
         /\ wait_deps' = r.wm
         /\ panicked' = r.panic
         /\ ret' = [op |-> "remove_waiter", chan |-> key, thread |-> waiter,
                    res |-> IF r.panic THEN "panic" ELSE r.res]
    /\ UNCHANGED Facade
    /\ UNCHANGED <<Interfaces, Packages>>

WmRemoveThread(T) ==
    /\ ~panicked
    /\ \E key \in T :
         LET r == remove_thread(wait_deps, key) IN
         /\ wait_deps' = r.wm
         /\ panicked' = r.panic
         /\ ret' = [op |-> "remove_thread", thread |-> key,
                    res |-> IF r.panic THEN "panic" ELSE r.res]
    /\ UNCHANGED Facade
    /\ UNCHANGED <<Interfaces, Packages>>

WmAddChannelRelation(C) ==
    /\ ~panicked
    /\ \E to \in C, from \in C :
         LET r == add_channel_relation(wait_deps, to, from) IN
         /\ wait_deps' = r.wm
         /\ ret' = [op |-> "add_channel_relation", to |-> to, from |-> from,
                    res |-> r.res]
    /\ UNCHANGED <<Facade, panicked>>
    /\ UNCHANGED <<Interfaces, Packages>>

WmRemoveChannelRelation(C) ==
    /\ ~panicked
    /\ \E to \in C, from \in C :
         LET r == remove_channel_relation(wait_deps, to, from) IN
         /\ wait_deps' = r.wm
         /\ ret' = [op |-> "remove_channel_relation", to |-> to, from |-> from,
                    res |-> r.res]
    /\ UNCHANGED <<Facade, panicked>>
    /\ UNCHANGED <<Interfaces, Packages>>

\* Every call of the WaitMap API.
NextWaitMap ==
    \/ WmAddChannel(WmChannelKeys, WmThreadKeys)
    \/ WmRemoveChannel(WmChannelKeys)
    \/ WmAddWaiter(WmChannelKeys, WmThreadKeys)
    \/ WmRemoveWaiter(WmChannelKeys, WmThreadKeys)
    \/ WmRemoveThread(WmThreadKeys)
    \/ WmAddChannelRelation(WmChannelKeys)
    \/ WmRemoveChannelRelation(WmChannelKeys)

SpecWaitMap == Init /\ [][NextWaitMap]_vars

\* The runs of the WaitMap API in which the callers register and remove
\* channels without waiters and edit the relations between them.  Every
\* such run is a run of the WaitMap API.
NextGraph ==
    \/ WmAddChannel(GraphChannelKeys, {})
    \/ WmRemoveChannel(GraphChannelKeys)
    \/ WmAddChannelRelation(GraphChannelKeys)
    \/ WmRemoveChannelRelation(GraphChannelKeys)

SpecGraph == Init /\ [][NextGraph]_vars

(* -------------------- the thread registry used directly ---------------- *)
\* The calls of threads::Set on a registry of its own (as in the test of
\* threads/mod.rs); the rest of the network stays as constructed.
NotThreadSet == <<processes, next_process_key, channels, next_channel_key,
                  wait_deps>>

\* Set::generate_new_key: last_key + 1 in the width of Key.  The addition
\* panics on overflow in a build with overflow checks and wraps in a build
\* without them.
generate_new_key(lk, overflow_checks) ==
    IF lk + 1 \in KeyValues
    THEN [key |-> lk + 1, panic |-> FALSE]
    ELSE [key |-> (lk + 1) % (2 ^ KeyBits), panic |-> overflow_checks]

\* Set::add of a thread made by Thread::default.
TsAdd ==
    /\ ~panicked
    /\ \E overflow_checks \in BOOLEAN :
         LET k == generate_new_key(last_key, overflow_checks) IN
         IF k.panic
         THEN /\ panicked' = TRUE
              /\ ret' = [op |-> "add", res |-> "panic"]
              /\ UNCHANGED <<threads, last_key>>
         ELSE /\ last_key' = k.key
              /\ threads' = MapInsert(threads, k.key, ThreadDefault)
              /\ ret' = [op |-> "add", res |-> k.key]
              /\ UNCHANGED panicked
    /\ UNCHANGED NotThreadSet
    /\ UNCHANGED <<Interfaces, Packages>>

\* Set::remove.
TsRemove ==
    /\ ~panicked
    /\ \E key \in KeyValues :
         /\ threads' = MapRemove(threads, key)
         /\ ret' = [op |-> "remove", key |-> key,
                    res |-> IF key \in DOMAIN threads THEN "Some" ELSE "None"]
    /\ UNCHANGED <<last_key, NotThreadSet, panicked>>
    /\ UNCHANGED <<Interfaces, Packages>>

NextThreadSet ==
    \/ TsAdd
    \/ TsRemove

SpecThreadSet == Init /\ [][NextThreadSet]_vars

(* ------------------ a process and the interface registry --------------- *)
\* The calls of Process and InterfaceSet on a process and a registry of
\* their own (as in the test of process.rs); the network stays as
\* constructed.
Network == <<threads, last_key, processes, next_process_key, channels,
             next_channel_key, wait_deps>>

\* verify_implementations reporting the prerequisites the registry does
\* not hold, in place of those the process does not implement.
verify_implementations_against_registry(impl, is) ==
    IF \E i \in impl : i \notin DOMAIN is
    THEN [res |-> "panic", missing |-> {}, panic |-> TRUE]
    ELSE LET prerequisites == UNION {is[i] : i \in impl}
             missing == {p \in prerequisites : p \notin DOMAIN is}
         IN IF missing # {}
            THEN [res |-> "Err", missing |-> missing, panic |-> FALSE]
            ELSE [res |-> "Ok", missing |-> {}, panic |-> FALSE]

\* Process::verify_implementations: [res, missing, panic]; the unwrap of
\* the registry's entry panics for an implemented key the registry lacks.
verify_implementations(impl, is) ==
    IF \E i \in impl : i \notin DOMAIN is
    THEN [res |-> "panic", missing |-> {}, panic |-> TRUE]
    ELSE LET prerequisites == UNION {is[i] : i \in impl}
             missing == {p \in prerequisites : p \notin impl}
         IN IF missing # {}
            THEN [res |-> "Err", missing |-> missing, panic |-> FALSE]
            ELSE [res |-> "Ok", missing |-> {}, panic |-> FALSE]

\* InterfaceSet::add_interface of an interface with the given
\* prerequisites.
IsAddInterface ==
    /\ ~panicked
    /\ \E key \in InterfaceKeys, prerequisites \in SUBSET InterfaceKeys :
         IF key \in DOMAIN interface_set
         THEN /\ ret' = [op |-> "add_interface", key |-> key, res |-> "Err"]
              /\ UNCHANGED interface_set
         ELSE /\ interface_set' = MapInsert(interface_set, key, prerequisites)
              /\ ret' = [op |-> "add_interface", key |-> key, res |-> "Ok"]
    /\ UNCHANGED <<Network, implements, panicked, Packages>>

\* Process::add_implementation.
PrAddImplementation ==
    /\ ~panicked
    /\ \E key \in InterfaceKeys :
         /\ implements' = implements \cup {key}
         /\ ret' = [op |-> "add_implementation", key |-> key,
                    inserted |-> key \notin implements]
    /\ UNCHANGED <<Network, interface_set, panicked, Packages>>

\* Process::verify_implementations on the process and the registry.
PrVerifyImplementations ==
    /\ ~panicked
    /\ LET r == verify_implementations(implements, interface_set) IN
         /\ panicked' = r.panic
         /\ ret' = [op |-> "verify_implementations", res |-> r.res,
                    missing |-> r.missing]
    /\ UNCHANGED <<Network, implements, interface_set, Packages>>

NextProcess ==
    \/ IsAddInterface
    \/ PrAddImplementation
    \/ PrVerifyImplementations

SpecProcess == Init /\ [][NextProcess]_vars

(* ------------------------ paths and the package tree ------------------- *)
\* A name of a path component, as its rank in the order of String
\* (1 for "a", 2 for "b", ...).
Names == 1..MaxNames

\* Ord for String on two names.
string_cmp(x, y) ==
    IF x < y THEN "Less" ELSE IF x = y THEN "Equal" ELSE "Greater"

\* Ordering::reverse.
reverse(ord) ==
    IF ord = "Less" THEN "Greater" ELSE IF ord = "Greater" THEN "Less"
    ELSE "Equal"

\* Path::new and Path::new_from_parent.  A path is its node's name followed
\* by the names of the chain of prev_node.
Path_new(name) == <<name>>
new_from_parent(parent, name) == <<name>> \o parent

\* The loop of PathIter::new: push_front of every node of the chain.
RECURSIVE push_front_chain(_, _)
push_front_chain(list, cur) ==
    IF cur = <<>> THEN list
    ELSE push_front_chain(<<Head(cur)>> \o list, Tail(cur))

\* PathIter::new: the nodes from the root to the path's node, cur at the
\* front and curr past the back.
PathIter_new(p) ==
    LET list == push_front_chain(<<Head(p)>>, Tail(p))
    IN [nodes |-> list, cur |-> 0, curr |-> Len(list)]

\* Iterator::next for PathIter: [i, some, name].
next(i) ==
    IF i.cur >= Len(i.nodes)
    THEN [i |-> i, some |-> FALSE, name |-> 0]
    ELSE [i |-> [i EXCEPT !.cur = @ + 1], some |-> TRUE,
          name |-> i.nodes[i.cur + 1]]

\* ExactSizeIterator::len for PathIter.
len(i) == Len(i.nodes)

\* DoubleEndedIterator::next_back for PathIter: [i, some, name].
next_back(i) ==
    IF i.curr = 0
    THEN [i |-> i, some |-> FALSE, name |-> 0]
    ELSE [i |-> [i EXCEPT !.curr = @ - 1], some |-> TRUE,
          name |-> i.nodes[i.curr]]

\* The loop of PartialEq::eq for RcPath.
RECURSIVE eq_loop(_, _)
eq_loop(a, b) ==
    LET i == next(a)
        j == next(b)
    IN IF i.some /\ j.some
       THEN IF i.name # j.name THEN FALSE ELSE eq_loop(i.i, j.i)
       ELSE FALSE

\* PartialEq::eq for RcPath.
eq(self, oth) == eq_loop(PathIter_new(self), PathIter_new(oth))

\* The loop of partial_cmp with the comparison of two names not reversed.
RECURSIVE partial_cmp_loop_plain(_, _)
partial_cmp_loop_plain(a, b) ==
    LET i == next(a)
        j == next(b)
    IN IF i.some
       THEN IF j.some
            THEN LET c == string_cmp(i.name, j.name)
                 IN IF c = "Equal" THEN partial_cmp_loop_plain(i.i, j.i)
                    ELSE c
            ELSE "Less"
       ELSE IF j.some THEN "Greater" ELSE "Equal"

\* The loop of PartialOrd::partial_cmp for RcPath.
RECURSIVE partial_cmp_loop(_, _)
partial_cmp_loop(a, b) ==
    LET i == next(a)
        j == next(b)
    IN IF i.some
       THEN IF j.some
            THEN LET c == string_cmp(i.name, j.name)
                 IN IF c = "Equal" THEN partial_cmp_loop(i.i, j.i)
                    ELSE reverse(c)
            ELSE "Less"
       ELSE IF j.some THEN "Greater" ELSE "Equal"

\* PartialOrd::partial_cmp for RcPath (always Some) and Ord::cmp, its
\* unwrap.
partial_cmp(self, oth) ==
    partial_cmp_loop(PathIter_new(self), PathIter_new(oth))

\* The tree is the set of its nodes, a node being the names that lead to
\* it from root_node (<<>> is root_node itself).  The keys of a node's
\* map `nodes`:
node_keys(tree, node) == {n \in Names : Append(node, n) \in tree}

\* BTreeMap::insert of an empty node under a name, and BTreeMap::remove of
\* a name, which drops the node and all nodes below it.
node_insert(tree, node, name) == tree \cup {Append(node, name)}
node_remove(tree, node, name) ==
    {s \in tree : ~(/\ Len(s) > Len(node)
                    /\ SubSeq(s, 1, Len(node) + 1) = Append(node, name))}

\* The loop of PackageTree::store_path.
RECURSIVE store_loop(_, _, _)
store_loop(tree, cur, i) ==
    LET nx == next(i) IN
    IF ~nx.some THEN tree
    ELSE store_loop(IF nx.name \notin node_keys(tree, cur)
                    THEN node_insert(tree, cur, nx.name) ELSE tree,
                    Append(cur, nx.name), nx.i)

\* PackageTree::store_path.
store_path(tree, p) == store_loop(tree, <<>>, PathIter_new(p))

\* The first loop of PackageTree::remove_path: the nodes of the tree met
\* along the path, and how many were passed.
RECURSIVE remove_walk(_, _, _, _, _)
remove_walk(tree, cur, i, tree_node_path, passed) ==
    LET nx == next(i) IN
    IF ~nx.some
    THEN [i |-> nx.i, tree_node_path |-> tree_node_path, passed |-> passed]
    ELSE IF nx.name \notin node_keys(tree, cur)
         THEN [i |-> nx.i, tree_node_path |-> tree_node_path,
               passed |-> passed]
         ELSE remove_walk(tree, Append(cur, nx.name), nx.i,
                          Append(tree_node_path, Append(cur, nx.name)),
                          passed + 1)

\* remove_path leaving the names of absent nodes in the iterator.
keep_back(i, remain) == i

\* The loop over 0..remain of remove_path: next_back for every name whose
\* node is absent.
RECURSIVE drop_back(_, _)
drop_back(i, remain) ==
    IF remain = 0 THEN i ELSE drop_back(next_back(i).i, remain - 1)

\* The last loop of remove_path: [tree, res], res being "panic" for an
\* unwrap of None and "dangling" for a pointer to a node already dropped.
RECURSIVE remove_unwind(_, _, _)
remove_unwind(tree, i, tree_node_path) ==
    LET nx == next_back(i) IN
    IF ~nx.some THEN [tree |-> tree, res |-> "Ok"]
    ELSE IF tree_node_path = <<>> THEN [tree |-> tree, res |-> "panic"]
    ELSE LET back == tree_node_path[Len(tree_node_path)]
             rest == SubSeq(tree_node_path, 1, Len(tree_node_path) - 1)
         IN IF back \notin tree THEN [tree |-> tree, res |-> "dangling"]
            ELSE IF node_keys(tree, back) = {}
            THEN IF rest = <<>> THEN [tree |-> tree, res |-> "panic"]
                 ELSE remove_unwind(node_remove(tree, rest[Len(rest)],
                                                nx.name), nx.i, rest)
            ELSE remove_unwind(tree, nx.i, rest)

\* PackageTree::remove_path: [tree, res].
remove_path(tree, p) ==
    LET w == remove_walk(tree, <<>>, PathIter_new(p), << <<>> >>, 0)
        remain == len(w.i) - w.passed
        i == IF remain # 0 THEN drop_back(w.i, remain) ELSE w.i
    IN remove_unwind(tree, i, w.tree_node_path)

\* Everything but the paths and the package tree.
NotPackages == <<threads, last_key, processes, next_process_key, channels,
                 next_channel_key, wait_deps, implements, interface_set>>

\* Path::new.
PathNew ==
    /\ ~panicked
    /\ \E name \in Names : path' = Path_new(name)
    /\ ret' = [op |-> "new"]
    /\ UNCHANGED <<NotPackages, other, root_node, panicked>>

\* Path::new_from_parent on a clone of either path.
PathNewFromParent ==
    /\ ~panicked
    /\ \E parent \in {path, other} \ {<<>>}, name \in Names :
         /\ Len(parent) < MaxPathLen
         /\ path' = new_from_parent(parent, name)
    /\ ret' = [op |-> "new_from_parent"]
    /\ UNCHANGED <<NotPackages, other, root_node, panicked>>

\* Clone for RcPath.
PathClone ==
    /\ ~panicked
    /\ path # <<>>
    /\ other' = path
    /\ ret' = [op |-> "clone"]
    /\ UNCHANGED <<NotPackages, path, root_node, panicked>>

\* path == other.
PathEq ==
    /\ ~panicked
    /\ path # <<>> /\ other # <<>>
    /\ ret' = [op |-> "eq", equal |-> eq(path, other)]
    /\ UNCHANGED <<NotPackages, Packages, panicked>>

\* path.cmp(&other).
PathCmp ==
    /\ ~panicked
    /\ path # <<>> /\ other # <<>>
    /\ ret' = [op |-> "cmp", res |-> partial_cmp(path, other)]
    /\ UNCHANGED <<NotPackages, Packages, panicked>>

NextPath ==
    \/ PathNew
    \/ PathNewFromParent
    \/ PathClone
    \/ PathEq
    \/ PathCmp

SpecPath == Init /\ [][NextPath]_vars

\* PackageTree::store_path of the path.
StorePath ==
    /\ ~panicked
    /\ path # <<>>
    /\ root_node' = store_path(root_node, path)
    /\ Cardinality(root_node') <= MaxTreeNodes + 1
    /\ ret' = [op |-> "store_path", before |-> root_node]
    /\ UNCHANGED <<NotPackages, path, other, panicked>>

\* PackageTree::remove_path of the path.
RemovePath ==
    /\ ~panicked
    /\ path # <<>>
    /\ LET r == remove_path(root_node, path) IN
         /\ root_node' = r.tree
         /\ panicked' = (r.res # "Ok")
         /\ ret' = [op |-> "remove_path", before |-> root_node,
                    res |-> r.res]
    /\ UNCHANGED <<NotPackages, path, other>>

NextPackageTree ==
    \/ PathNew
    \/ PathNewFromParent
    \/ StorePath
    \/ RemovePath

SpecPackageTree == Init /\ [][NextPackageTree]_vars

(* ------------------------------ properties ----------------------------- *)
\* The entries of a list, as a set.
Elems(list) == {list[i] : i \in DOMAIN list}

\* The nodes reachable from the nodes of S over the relations.
RECURSIVE Closure(_, _)
Closure(rel, S) ==
    LET more == S \cup UNION {rel[x] : x \in S}
    IN IF more = S THEN S ELSE Closure(rel, more)

\* The nodes reachable from n in one step or more.
Reach(rel, n) == Closure(rel, rel[n])

\* The graph has the edge from channel c1 to channel c2.
Edge(wm, c1, c2) ==
    /\ c1 \in DOMAIN wm.chan_to_graph
    /\ c2 \in DOMAIN wm.chan_to_graph
    /\ wm.chan_to_graph[c2] \in wm.relations[wm.chan_to_graph[c1]]

\* The last call was wait_thread with timer = false.
UntimedWait(r) == r.op = "wait_thread" /\ ~r.timer

\* The last call was wait_thread with timer = true.
TimedWait(r) == r.op = "wait_thread" /\ r.timer

\* The network is the ring of n threads 1..n and n channels 0..n-1, channel
\* i-1 joining thread i and its successor.
Ring(n) ==
    /\ DOMAIN threads = 1..n
    /\ DOMAIN channels = 0..(n - 1)
    /\ \A i \in 1..n : channels[i - 1] = {i, (i % n) + 1}

\* The waiters recorded are those of the first k waits around the ring.
RingWaited(n, k) ==
    \A j \in 1..n : wait_deps.chan[j - 1] = IF j <= k THEN {j} ELSE {}

\* C1: in a ring of n >= 2 two-participant channels, the untimed waits
\* wait_thread(t_i, c_i, false) made around the ring in order return Ok for
\* every call but the last, and the last one returns DeadlockWouldForm.
C1_RingWaitsRejectOnlyLast ==
    [][\A n \in 2..MaxUntimedThreads : \A i \in 1..n :
         (/\ Ring(n)
          /\ RingWaited(n, i - 1)
          /\ UntimedWait(ret')
          /\ ret'.thread = i
          /\ ret'.chan = i - 1)
         => ret'.res = IF i < n THEN "Ok(Some)" ELSE "Err"]_vars

\* C2: after any sequence of add_channel_relation / remove_channel_relation
\* calls on a WaitMap, accepted or rejected, the channel dependency graph has
\* no directed cycle and no self-loop.
C2_GraphAcyclic ==
    \A n \in DOMAIN wait_deps.relations : n \notin Reach(wait_deps.relations, n)

\* A relation between two different channels was just rejected, in a graph
\* that keeps at least two relations.
C2_Witness ==
    /\ ret.op = "add_channel_relation"
    /\ ret.res = "Err"
    /\ ret.to # ret.from
    /\ Cardinality({n \in DOMAIN wait_deps.relations :
                       wait_deps.relations[n] # {}}) >= 2

\* C3: whenever wait_thread(t, c, false) returns DeadlockWouldForm, the set
\* of graph edges after the call equals the set before the call.
C3_RejectedWaitKeepsEdges ==
    [][(UntimedWait(ret') /\ ret'.res = "Err")
         => wait_deps'.relations = wait_deps.relations]_vars

\* C4: whenever wait_thread(t, c, false) returns DeadlockWouldForm, t is a
\* waiter of c afterwards only if it was before, and the state of t is the
\* same as before.
C4_RejectedWaitKeepsWaiters ==
    [][(UntimedWait(ret') /\ ret'.res = "Err")
         => /\ ret'.thread \in wait_deps'.chan[ret'.chan]
                 => ret'.thread \in wait_deps.chan[ret'.chan]
            /\ threads'[ret'.thread].state = threads[ret'.thread].state]_vars

\* C5: whenever wait_thread(t, c, false) returns success for an existing
\* thread t and an existing channel c, the state of t afterwards is
\* WaitWithoutTimeout(c).
C5_AcceptedWaitSetsState ==
    (UntimedWait(ret) /\ ret.res = "Ok(Some)")
        => threads[ret.thread].state = WaitWithoutTimeout(ret.chan)

\* C6: in every state reachable through the facade, a thread that is a
\* waiter of channel c in the wait map is in the state WaitWithoutTimeout(c).
C6_WaitersAreWaiting ==
    \A c \in DOMAIN wait_deps.chan : \A t \in wait_deps.chan[c] :
        t \in DOMAIN threads /\ threads[t].state = WaitWithoutTimeout(c)

FullyLocked(wm, c) ==
    \A p \in channels[c] : \E x \in DOMAIN wm.chan : p \in wm.chan[x]

\* C8: after an accepted wait_thread(t, c, false), for each other channel c'
\* of t the edge c' -> c is in the graph if and only if it was there before
\* or every participant of c' is a waiter on some channel (t counted as a
\* waiter of c).
C8_EdgesOnlyFromLockedChannels ==
    [][(UntimedWait(ret') /\ ret'.res = "Ok(Some)")
         => \A c \in threads[ret'.thread].chans \ {ret'.chan} :
                Edge(wait_deps', c, ret'.chan)
                  <=> (Edge(wait_deps, c, ret'.chan) \/ FullyLocked(wait_deps', c))]_vars

\* C9: a participant w of channel c whose wait_thread(w, c, false) was
\* accepted, and that was not transitioned since, is in the wake-up list
\* of channel_signal(s, c, false) of another participant s and is Active
\* afterwards.  Stated for the wait accepted by the call right before the
\* signal.
C9_SignalWakesAcceptedWaiter ==
    [][(/\ UntimedWait(ret)
        /\ ret.res = "Ok(Some)"
        /\ ret'.op = "channel_signal"
        /\ ~ret'.timer
        /\ ret'.res = "Ok"
        /\ ret'.chan = ret.chan
        /\ ret'.thread # ret.thread
        /\ ret.thread \in channels[ret.chan])
         => /\ ret.thread \in Elems(ret'.list)
            /\ threads'[ret.thread].state = Active]_vars

\* The thread waits, with or without timeout, on channel c.
WaitsOn(t, c) == threads[t].state \in {WaitWithTimeout(c), WaitWithoutTimeout(c)}

C11_SignalRejectsStrangers ==
    [][(/\ ret'.op = "channel_signal"
        /\ \/ ret'.chan \notin DOMAIN channels
           \/ ret'.thread \notin channels[ret'.chan])
         => /\ ret'.res = "Err"
            /\ ~panicked'
            /\ threads' = threads
            /\ wait_deps' = wait_deps]_vars

\* A signal of a registered thread on a channel it does not participate in
\* was just refused, while the channel has a waiter and the thread waits.
C11_Witness ==
    /\ ret.op = "channel_signal"
    /\ ret.res = "Err"
    /\ ret.chan \in DOMAIN channels
    /\ ret.thread \in DOMAIN threads
    /\ ret.thread \notin channels[ret.chan]
    /\ wait_deps.chan[ret.chan] # {}
    /\ threads[ret.thread].state = WaitWithTimeout(ret.chan)

\* The sender's own untimed wait on the channel, made after the wake-ups of
\* channel_signal(s, c, false), is rejected.
SenderWaitRejected(s, c) ==
    /\ c \in DOMAIN channels
    /\ s \in channels[c]
    /\ wait_thread(signal_wake(Nw, SortedSeq(channels[c]), c, <<>>).nw,
                   s, c, FALSE).res = "Err"

\* C12: when the sender's own wait inside channel_signal(s, c, false) is
\* rejected because a cycle would form, channel_signal returns an error
\* value to the caller, without a crash, and the participants woken in that
\* call stay Active.
C12_SignalReturnsCycleError ==
    [][(/\ ret'.op = "channel_signal"
        /\ ~ret'.timer
        /\ SenderWaitRejected(ret'.thread, ret'.chan))
         => /\ ret'.res = "Err"
            /\ ~panicked'
            /\ \A p \in Elems(ret'.list) : threads'[p].state = Active]_vars

\* C13: when wait_thread(t, c, false) was accepted and active_thread(t) or
\* sleep_thread(t) is called afterwards, t is a waiter of no channel after
\* that call.  Stated for the transition made right after the accepted wait.
C13_TransitionReleasesWaiter ==
    [][(/\ UntimedWait(ret)
        /\ ret.res = "Ok(Some)"
        /\ ret'.op \in {"sleep_thread", "active_thread"}
        /\ ret'.thread = ret.thread)
         => \A c \in DOMAIN wait_deps'.chan :
                ret.thread \notin wait_deps'.chan[c]]_vars

\* C14: for every channel c registered in the wait map,
\* add_channel_relation(c, c) returns the cycle error and the graph has no
\* self-loop on the node of c afterwards.
C14_SelfRelationRejected ==
    [][(/\ ret'.op = "add_channel_relation"
        /\ ret'.to = ret'.from
        /\ ret'.to \in DOMAIN wait_deps.chan)
         => /\ ret'.res = "Err"
            /\ ~Edge(wait_deps', ret'.to, ret'.to)]_vars

\* C15: add_relation(from, to) for a relation not yet present fails with
\* the cycle error if and only if to = from or from is reachable from to
\* before the call; an insertion that leaves the graph acyclic is accepted,
\* also when it only creates a second path between two nodes.
C15_RejectsExactlyCycles ==
    [][(/\ ret'.op = "add_channel_relation"
        /\ ret'.to \in DOMAIN wait_deps.chan_to_graph
        /\ ret'.from \in DOMAIN wait_deps.chan_to_graph
        /\ ~Edge(wait_deps, ret'.from, ret'.to))
         => LET n_to == wait_deps.chan_to_graph[ret'.to]
                n_from == wait_deps.chan_to_graph[ret'.from]
            IN (ret'.res = "Err")
                 <=> (n_to = n_from \/ n_from \in Reach(wait_deps.relations, n_to))]_vars

\* C16: when add_channel_relation (add_relation) fails with the cycle
\* error, the relations of the graph after the call are exactly the
\* relations before the call.
C16_RejectedRelationKeepsEdges ==
    [][(ret'.op = "add_channel_relation" /\ ret'.res = "Err")
         => wait_deps'.relations = wait_deps.relations]_vars

\* The relation just rejected would have closed a cycle with the relation
\* the graph holds in the other direction.
C16_Witness ==
    /\ ret.op = "add_channel_relation"
    /\ ret.res = "Err"
    /\ ret.to # ret.from
    /\ Edge(wait_deps, ret.to, ret.from)
    /\ ~Edge(wait_deps, ret.from, ret.to)

\* C17: in every state reachable through the facade, for every registered
\* thread t and channel id c, c is in the channels of t if and only if c is
\* a registered channel and t is one of its participants.
C17_ChannelsMirrorParticipants ==
    \A t \in DOMAIN threads :
        /\ threads[t].chans \subseteq DOMAIN channels
        /\ \A c \in DOMAIN channels : c \in threads[t].chans <=> t \in channels[c]

\* Two channels are registered, one with two participants, and a thread
\* participates in that one and not in the other.
C17_Witness ==
    \E t \in DOMAIN threads : \E c1 \in DOMAIN channels, c2 \in DOMAIN channels :
        /\ c1 \in threads[t].chans
        /\ Cardinality(channels[c1]) = 2
        /\ c2 \notin threads[t].chans
        /\ channels[c2] # {}

\* C18: in every state reachable through the facade, a thread in the state
\* WaitWithoutTimeout(c) or WaitWithTimeout(c) has c in its channels and c
\* is a registered channel.
C18_WaitStateNamesOwnChannel ==
    \A t \in DOMAIN threads : \A c \in ChannelKeys :
        threads[t].state \in {WaitWithoutTimeout(c), WaitWithTimeout(c)}
            => c \in threads[t].chans /\ c \in DOMAIN channels

\* C19: new_thread with a process id that is not registered returns None
\* and leaves the threads, the key counter and the thread sets of the
\* processes unchanged; with a registered process it returns a new key that
\* is then in the thread registry and in the thread set of that process.
C19_NewThreadNeedsProcess ==
    [][ret'.op = "new_thread"
         => IF ret'.process \notin DOMAIN processes
            THEN /\ ret'.res = "None"
                 /\ threads' = threads
                 /\ last_key' = last_key
                 /\ processes' = processes
            ELSE /\ ret'.res \notin DOMAIN threads
                 /\ ret'.res \in DOMAIN threads'
                 /\ ret'.res \in processes'[ret'.process]]_vars

\* A second thread was just registered in the second process.
C19_Witness ==
    /\ ret.op = "new_thread"
    /\ ret.process \in DOMAIN processes
    /\ ret.process = MaxProcesses - 1
    /\ Cardinality(DOMAIN threads) = 2
    /\ ret.res \in processes[ret.process]

\* C20: in every state reachable through the facade, every registered
\* thread is in the thread set of exactly one process, and no call moves a
\* thread out of the process that holds it.
C20_ThreadInOneProcess ==
    [][/\ \A t \in DOMAIN threads' :
             Cardinality({q \in DOMAIN processes' : t \in processes'[q]}) = 1
       /\ \A q \in DOMAIN processes : processes[q] \subseteq processes'[q]]_vars

\* Two processes hold one thread each.
C20_Witness ==
    \E q1 \in DOMAIN processes, q2 \in DOMAIN processes :
        /\ q1 # q2
        /\ Cardinality(processes[q1]) = 1
        /\ Cardinality(processes[q2]) = 1
        /\ processes[q1] \cup processes[q2] = DOMAIN threads

\* C21: new_channel with a participant that is not a registered thread
\* returns None, and then no channel is registered, no channel key is
\* consumed, the wait map and its graph are as before and no thread's
\* channels change.
C21_NewChannelNeedsThreads ==
    [][(/\ ret'.op = "new_channel"
        /\ \E p \in ret'.participants : p \notin DOMAIN threads)
         => /\ channels' = channels
            /\ next_channel_key' = next_channel_key
            /\ wait_deps' = wait_deps
            /\ threads' = threads
            /\ ret'.res = "None"]_vars

\* A channel of a registered and an unregistered thread was just refused,
\* in a network that has a channel.
C21_Witness ==
    /\ ret.op = "new_channel"
    /\ \E p \in ret.participants : p \notin DOMAIN threads
    /\ \E p \in ret.participants : p \in DOMAIN threads
    /\ DOMAIN channels # {}
    /\ next_channel_key < MaxChannels

\* C22: the keys returned by the add of the thread registry are strictly
\* increasing from 1 and never reused: whatever adds and removes came
\* before, add returns a key greater than every key returned earlier and
\* never wraps around to a used one.
C22_ThreadKeysIncrease ==
    [][(ret'.op = "add" /\ ~panicked')
         => /\ ret'.res > last_key
            /\ ret'.res >= 1
            /\ ret'.res \notin DOMAIN threads]_vars

\* C23: sleep_thread and active_thread on an unregistered thread, and
\* wait_thread(t, c, false) with an unregistered thread or channel, return
\* None and leave the thread states and the wait map with its graph
\* unchanged; on a registered thread sleep_thread sets the state Sleep and
\* active_thread sets the state Active.
C23_NotFoundChangesNothing ==
    [][/\ (/\ ret'.op \in {"sleep_thread", "active_thread"}
           /\ ret'.thread \notin DOMAIN threads)
            => /\ ret'.res = "None"
               /\ ~panicked'
               /\ threads' = threads
               /\ wait_deps' = wait_deps
       /\ (/\ UntimedWait(ret')
           /\ \/ ret'.thread \notin DOMAIN threads
              \/ ret'.chan \notin DOMAIN channels)
            => /\ ret'.res = "Ok(None)"
               /\ ~panicked'
               /\ threads' = threads
               /\ wait_deps' = wait_deps
       /\ (ret'.op = "sleep_thread" /\ ret'.thread \in DOMAIN threads)
            => ret'.res = "Some" /\ threads'[ret'.thread].state = Sleep
       /\ (ret'.op = "active_thread" /\ ret'.thread \in DOMAIN threads)
            => ret'.res = "Some" /\ threads'[ret'.thread].state = Active]_vars

\* An untimed wait of a registered thread for an unregistered channel was
\* just refused, in a network whose wait map records a waiter.
C23_Witness ==
    /\ UntimedWait(ret)
    /\ ret.res = "Ok(None)"
    /\ ret.thread \in DOMAIN threads
    /\ ret.chan \notin DOMAIN channels
    /\ \E c \in DOMAIN wait_deps.chan : wait_deps.chan[c] # {}

\* C24: add_channel on a channel that is already registered returns false
\* and leaves the whole wait map unchanged (the waiters of the channels, the
\* channels of the threads and the graph nodes of the channels), whatever
\* waiters are given.
C24_AddChannelTwiceChangesNothing ==
    [][(ret'.op = "add_channel" /\ ret'.chan \in DOMAIN wait_deps.chan)
         => /\ ret'.res = FALSE
            /\ wait_deps' = wait_deps]_vars

\* C25: after remove_channel(c) returns Some(true), c has no graph node
\* entry, the node it had is gone and no relation into or out of that node
\* remains; remove_channel returns Some(true) only when c had no waiters.
C25_RemoveChannelReleasesNode ==
    [][(ret'.op = "remove_channel" /\ ret'.res = "Some(true)")
         => /\ wait_deps.chan[ret'.chan] = {}
            /\ ret'.chan \notin DOMAIN wait_deps'.chan_to_graph
            /\ ret'.chan \in DOMAIN wait_deps.chan_to_graph
                 => LET n == wait_deps.chan_to_graph[ret'.chan] IN
                    /\ n \notin DOMAIN wait_deps'.relations
                    /\ \A m \in DOMAIN wait_deps'.relations :
                          n \notin wait_deps'.relations[m]]_vars

\* C26: after add_waiter(c, t), whether or not c was registered and t was
\* known, t is a waiter of c and c is among the channels of t; the call
\* returns true exactly when c was registered before it.
C26_AddWaiterUpdatesBothIndices ==
    [][ret'.op = "add_waiter"
         => /\ ret'.res <=> ret'.chan \in DOMAIN wait_deps.chan
            /\ ret'.chan \in DOMAIN wait_deps'.chan
            /\ ret'.thread \in wait_deps'.chan[ret'.chan]
            /\ ret'.thread \in DOMAIN wait_deps'.thr
            /\ ret'.chan \in wait_deps'.thr[ret'.thread]]_vars

\* C27: in every wait map state where t is not a waiter of c, add_waiter(c,
\* t) followed by remove_waiter(c, t) gives back the state before, except
\* that an entry for c made by add_waiter stays with no waiters; that
\* remove_waiter returns true, t being a waiter of c when it is called.
C27_AddRemoveWaiterRoundTrip ==
    \A c \in WmChannelKeys, t \in WmThreadKeys :
        (c \notin DOMAIN wait_deps.chan \/ t \notin wait_deps.chan[c])
            => LET a == add_waiter(wait_deps, c, t)
                   r == remove_waiter(a.wm, c, t)
               IN /\ ~r.panic
                  /\ r.res
                  /\ r.wm = IF c \in DOMAIN wait_deps.chan THEN wait_deps
                            ELSE [wait_deps EXCEPT !.chan = MapInsert(@, c, {})]

\* C28: remove_thread is idempotent: whatever WaitMap calls came before
\* (a remove_channel of a channel the thread was on among them), a call of
\* remove_thread(t) completes and a second call right after it completes
\* too and leaves the wait map as the first one left it.
C28_RemoveThreadIdempotent ==
    [][ret'.op = "remove_thread"
         => /\ ~panicked'
            /\ LET again == remove_thread(wait_deps', ret'.thread)
               IN ~again.panic /\ again.wm = wait_deps']_vars

\* C29: after remove_thread(t), t is a waiter of no channel and the thread
\* index has no entry for t.
C29_RemoveThreadClearsThread ==
    [][(ret'.op = "remove_thread" /\ ~panicked')
         => /\ \A c \in DOMAIN wait_deps'.chan :
                  ret'.thread \notin wait_deps'.chan[c]
            /\ ret'.thread \notin DOMAIN wait_deps'.thr]_vars

\* C30: for a process whose implemented interfaces are all in the
\* registry, verify_implementations returns Ok exactly when the union of
\* the prerequisites of the interfaces the process implements is within the
\* set it implements, and otherwise an error whose missing set is that union
\* without the implemented set.
C30_VerifyReportsMissingPrerequisites ==
    [][(/\ ret'.op = "verify_implementations"
        /\ implements \subseteq DOMAIN interface_set)
         => LET required == UNION {interface_set[i] : i \in implements} IN
            /\ ~panicked'
            /\ ret'.res = "Ok" <=> required \subseteq implements
            /\ ret'.res # "Ok"
                 => ret'.res = "Err" /\ ret'.missing = required \ implements]_vars

\* The process implements two interfaces, the first requires the second
\* and a third, and the check just reported the third as the one missing.
C30_Witness ==
    /\ ret.op = "verify_implementations"
    /\ ret.res = "Err"
    /\ Cardinality(implements) = 2
    /\ Cardinality(ret.missing) = 1
    /\ \E i \in implements :
         /\ Cardinality(interface_set[i]) = 2
         /\ interface_set[i] \cap implements # {}
         /\ ret.missing \subseteq interface_set[i]

\* C32: for registered channels a and b without the relation from b to a,
\* when add_channel_relation(to = a, from = b) succeeds, the
\* remove_channel_relation(to = a, from = b) that follows returns Some(true)
\* and the relations are those before the add; when a or b is not
\* registered, both calls return their not-found result and change nothing.
C32_RelationRoundTrip ==
    \A a \in GraphChannelKeys, b \in GraphChannelKeys :
        LET add == add_channel_relation(wait_deps, a, b)
            rem == remove_channel_relation(add.wm, a, b)
        IN IF a \in DOMAIN wait_deps.chan /\ b \in DOMAIN wait_deps.chan
           THEN (~Edge(wait_deps, b, a) /\ add.res = "Ok(true)")
                    => /\ rem.res = "Some(true)"
                       /\ rem.wm = wait_deps
           ELSE /\ add.res = "Ok(false)"
                /\ add.wm = wait_deps
                /\ remove_channel_relation(wait_deps, a, b).res = "None"
                /\ remove_channel_relation(wait_deps, a, b).wm = wait_deps

C34_ChannelsHaveOwnNodes ==
    /\ \A c \in DOMAIN wait_deps.chan :
          /\ c \in DOMAIN wait_deps.chan_to_graph
          /\ wait_deps.chan_to_graph[c] \in DOMAIN wait_deps.relations
    /\ \A c1 \in DOMAIN wait_deps.chan, c2 \in DOMAIN wait_deps.chan :
          (/\ c1 # c2
           /\ c1 \in DOMAIN wait_deps.chan_to_graph
           /\ c2 \in DOMAIN wait_deps.chan_to_graph)
              => wait_deps.chan_to_graph[c1] # wait_deps.chan_to_graph[c2]

\* C35: after any sequence of WaitMap calls the two indices agree: thread
\* t is a waiter of channel c if and only if c is among the channels of t.
C35_IndicesAgree ==
    \A t \in WmThreadKeys, c \in WmChannelKeys :
        (c \in DOMAIN wait_deps.chan /\ t \in wait_deps.chan[c])
            <=> (t \in DOMAIN wait_deps.thr /\ c \in wait_deps.thr[t])

\* C36: whatever facade calls came before, wait_thread never reaches its
\* fatal branch and never looks up a missing channel: every channel of a
\* registered thread is in the channel registry and has a graph node entry.
C36_WaitThreadNeverFatal ==
    [][/\ ret'.op = "wait_thread" => (ret'.res # "panic" /\ ~panicked')
       /\ \A t \in DOMAIN threads' :
             /\ threads'[t].chans \subseteq DOMAIN channels'
             /\ threads'[t].chans \subseteq DOMAIN wait_deps'.chan_to_graph]_vars

\* An untimed wait was just accepted after it recorded a relation between
\* two channels of the thread.
C36_Witness ==
    /\ UntimedWait(ret)
    /\ ret.res = "Ok(Some)"
    /\ Cardinality(threads[ret.thread].chans) = 2
    /\ \E c \in threads[ret.thread].chans :
         c # ret.chan /\ Edge(wait_deps, c, ret.chan)

\* C37: after any sequence of WaitMap calls, remove_waiter and
\* remove_thread never fail fatally on a missing entry of the thread index
\* or of the waiters: they complete and return true or false.
C37_RemovalsNeverFatal ==
    [][ret'.op \in {"remove_waiter", "remove_thread"} => ~panicked']_vars

\* The sequences that list every element of S once.
Perms(S) ==
    {f \in [1..Cardinality(S) -> S] : \A i, j \in DOMAIN f : f[i] = f[j] => i = j}

\* The results the walk of path_has_loop can give when the relations of a
\* node are pushed to the queue in any order.
RECURSIVE path_results(_, _, _)
path_results(rel, nodes, next_nodes) ==
    IF next_nodes = <<>> THEN {FALSE}
    ELSE LET cur == Head(next_nodes) IN
         IF cur \in nodes THEN {TRUE}
         ELSE UNION {path_results(rel, nodes \cup {cur}, Tail(next_nodes) \o order) :
                        order \in Perms(rel[cur])}

\* C38: the walk that add_relation runs (path_has_loop) ends for every
\* graph, the one in which the relation just inserted closes a cycle
\* included, after at most one step per node and one more, and its result
\* is the same in whatever order the relations of a node are explored.
C38_LoopCheckEndsSameInAnyOrder ==
    \A from \in DOMAIN wait_deps.relations, to \in DOMAIN wait_deps.relations :
        LET ins == [wait_deps.relations EXCEPT ![from] = @ \cup {to}] IN
        /\ path_walk_steps(ins, {}, <<from>>) <= Cardinality(DOMAIN ins) + 1
        /\ path_results(ins, {}, <<from>>) = {path_has_loop(ins, from)}

\* A relation that would close a cycle was just rejected in a graph where
\* a node has relations to two nodes.
C38_Witness ==
    /\ ret.op = "add_channel_relation"
    /\ ret.res = "Err"
    /\ Edge(wait_deps, ret.to, ret.from)
    /\ \E n \in DOMAIN wait_deps.relations :
         Cardinality(wait_deps.relations[n]) = 2

(* ----------------------------- paths ----------------------------------- *)
\* The names of a path from the root to its node.
Components(p) == [k \in 1..Len(p) |-> p[Len(p) - k + 1]]

\* a is a prefix of b, and a proper one.
IsPrefix(a, b) == Len(a) <= Len(b) /\ SubSeq(b, 1, Len(a)) = a
IsStrictPrefix(a, b) == IsPrefix(a, b) /\ Len(a) < Len(b)

\* The first position at which two sequences differ, neither being a
\* prefix of the other.
FirstDiff(a, b) ==
    Min({k \in 1..Min({Len(a), Len(b)}) : a[k] # b[k]})

\* C31: a comparison of two paths walks their names from the root.  A path
\* that extends the other is Less, the path it extends is Greater; else
\* the first names that differ decide, the path with the alphabetically
\* smaller name being Greater; paths of the same names are Equal; and the
\* comparison the other way round gives the reverse.
C31_PathOrderRootFirst ==
    (ret.op = "cmp") =>
        LET a == Components(path)
            b == Components(other)
        IN /\ IsStrictPrefix(b, a) => ret.res = "Less"
           /\ IsStrictPrefix(a, b) => ret.res = "Greater"
           /\ (~IsPrefix(a, b) /\ ~IsPrefix(b, a)) =>
                  ret.res = IF a[FirstDiff(a, b)] < b[FirstDiff(a, b)]
                            THEN "Greater" ELSE "Less"
           /\ (a = b) => ret.res = "Equal"
           /\ partial_cmp(other, path) = reverse(ret.res)

\* a.b.c.d compared with a.b.c is Less.
C31_Witness ==
    /\ ret.op = "cmp"
    /\ Components(path) = <<1, 2, 3, 4>>
    /\ Components(other) = <<1, 2, 3>>
    /\ ret.res = "Less"

\* C39: == on two paths holds exactly when they have the same names from
\* the root, that is exactly when their comparison is Equal; so a path
\* equals itself.
C39_EqAgreesWithCmp ==
    (ret.op = "eq") =>
        /\ ret.equal <=> (Components(path) = Components(other))
        /\ ret.equal <=> (partial_cmp(path, other) = "Equal")

\* The nodes of the tree on the path p: the non-empty prefixes of its
\* names.
OnPath(node, p) == node # <<>> /\ IsPrefix(node, Components(p))

\* C40: remove_path(p) ends normally and removes exactly the nodes on p
\* that have no descendant off p: a node on p stays if and only if it has
\* such a descendant, and a node off p stays (so a.b.c leaves a tree of
\* a.b.c.d as it is, and a.b.c.d empties a tree of a.b.c alone); after
\* store_path(p) every prefix of p is a node and no node was lost.
C40_RemovePathKeepsUsedNodes ==
    [][/\ (ret'.op = "remove_path") =>
            /\ ret'.res = "Ok"
            /\ root_node' \subseteq root_node
            /\ \A node \in root_node :
                 node \in root_node' <=>
                     \/ ~OnPath(node, path)
                     \/ \E d \in root_node :
                          IsStrictPrefix(node, d) /\ ~OnPath(d, path)
       /\ (ret'.op = "store_path") =>
            /\ root_node \subseteq root_node'
            /\ \A k \in 1..Len(path) :
                 SubSeq(Components(path), 1, k) \in root_node'
      ]_vars

\* a.b.c.d was removed from a tree of a.b.c alone, and a, b and c went.
C40_Witness ==
    /\ ret.op = "remove_path"
    /\ Components(path) = <<1, 2, 3, 4>>
    /\ ret.before = {<<>>, <<1>>, <<1, 2>>, <<1, 2, 3>>}
    /\ root_node = {<<>>}

====
